---- MODULE Spec2Model ----
(***************************************************************************)
(* ConcurrentCallbackQueue (version 0.8.28, the class listed in            *)
(* src/README.md lines 284-903) as a state machine.                        *)
(*                                                                         *)
(* The queue object is the record q (see Cur): its private fields          *)
(* #pending, #running, #state, #concurrent and #options, together with     *)
(* what the JavaScript run time holds for it: the microtask queue with the *)
(* reactions of the promise chains built by #processNext, and the number   *)
(* of live setInterval timers created by #run.  Methods are operators from *)
(* q to q, composed as the code calls them; every action of Next is one    *)
(* caller operation, one timer tick, one promise reaction, or the          *)
(* settlement of one awaited callback.                                     *)
(*                                                                         *)
(* Callbacks are the items 1, 2, ... in the order they are enqueued.       *)
(* The promise hops between two reactions of one chain that run no code of *)
(* the class are merged into the reaction that follows them.               *)
(***************************************************************************)
EXTENDS Integers, Sequences, FiniteSets, TLC

\* ---------------------------------------------------------------- bounds
\* Callbacks enqueued in one run.
MaxItems == 2
\* The largest retries argument.
MaxRetries == 1
\* The longest array given to enqueueAll.
MaxBatch == 2
\* Interval timers alive at the same time.
MaxIntervals == 2
\* The largest maxConcurrent option.
MaxConcurrentOption == 2
MaxProps == 3

VARIABLES
    autoStart,      \* #options.autoStart
    maxConcurrent,  \* #options.maxConcurrent
    state,          \* #state
    pending,        \* #pending: the items (CallbackTuple) waiting, front first
    concurrent,     \* #concurrent
    running,        \* #running: a Map index -> callback, as a set of <<index, item>>
    item,           \* per item: where it is and what happened to it
    microQ,         \* the microtask queue: promise reactions, oldest first
    intervals,      \* the number of live setInterval timers of #run
    lastIndex,      \* the last value Date.now() returned to #processNext
    nextId,         \* the next item to be enqueued
    quiet,          \* the caller has made the start() call after which it
                    \* calls neither stop()/clear() nor enqueue/enqueueAll
    given,          \* the configuration the constructor was called with
    options         \* #options: what getOptions() returns

vars == <<autoStart, maxConcurrent, state, pending, concurrent, running, item,
          microQ, intervals, lastIndex, nextId, quiet, given, options>>

Items == 1..MaxItems

\* QueueState
IDLE == "IDLE"
BUSY == "BUSY"
STOPPED == "STOPPED"
QueueState == {IDLE, BUSY, STOPPED}

\* An item that has not been enqueued yet.
\* place: new, pending, admitted (taken by #processNext, not yet invoked),
\* running, done, removed (handed back to the caller).
NewItem ==
    [place |-> "new", retries |-> 0, attempt |-> 0, calls |-> 0, nErr |-> 0,
     nSucc |-> 0, index |-> 0, waiting |-> FALSE, outcome |-> "none"]

\* An item the queue holds no longer: done, or removed (handed back to the
\* caller). What is recorded of it is dropped with it.
Gone(place) == [NewItem EXCEPT !.place = place]

\* The queue object and the run time's share of it as a step begins. What
\* the step does to its caller is recorded in the record only: fired, the
\* queue hooks it called, in order; threw, whether it threw.
Cur ==
    [autoStart |-> autoStart, maxConcurrent |-> maxConcurrent, state |-> state,
     pending |-> pending, concurrent |-> concurrent, running |-> running,
     item |-> item, microQ |-> microQ, intervals |-> intervals,
     lastIndex |-> lastIndex, nextId |-> nextId,
     fired |-> <<>>, threw |-> FALSE]

CommitQueue(q) ==
    /\ autoStart' = q.autoStart
    /\ maxConcurrent' = q.maxConcurrent
    /\ state' = q.state
    /\ pending' = q.pending
    /\ concurrent' = q.concurrent
    /\ running' = q.running
    /\ item' = q.item
    /\ microQ' = q.microQ
    /\ intervals' = q.intervals
    /\ lastIndex' = q.lastIndex
    /\ nextId' = q.nextId

Commit(q) == CommitQueue(q) /\ UNCHANGED <<quiet, given, options>>

\* Date.now(): a clock that never goes back. Indexes are only compared for
\* equality, so the value is either the one returned last or a later one;
\* when no item in flight holds the last one, the two cases do not differ
\* and the later value stands for both.
DateNow ==
    IF \E i \in Items : item[i].place \in {"admitted", "running"}
                         /\ item[i].index = lastIndex
    THEN {lastIndex, lastIndex + 1}
    ELSE {lastIndex + 1}

\* ------------------------------------------------------------ internal API

\* Fault: #setState that calls onQueueStop when the queue goes idle.
HookOfIdleStop(s) ==
    CASE s = IDLE -> "onQueueStop"
      [] s = BUSY -> "onQueueBusy"
      [] s = STOPPED -> "onQueueStop"

\* The hook #setState calls for a state.
HookOf(s) ==
    CASE s = IDLE -> "onQueueIdle"
      [] s = BUSY -> "onQueueBusy"
      [] s = STOPPED -> "onQueueStop"

\* #setState: assign the state and call the hook of the new state.
SetState(q, s) ==
    [q EXCEPT !.state = s, !.fired = Append(@, HookOf(s))]

\* ---------------------------------------------------------- construction

\* JavaScript values, as far as the constructor tells them apart.
BoolV(b) == [type |-> "boolean", num |-> IF b THEN 1 ELSE 0, str |-> ""]
NumV(n) == [type |-> "number", num |-> n, str |-> ""]
StrV(t) == [type |-> "string", num |-> 0, str |-> t]
FnV(name) == [type |-> "function", num |-> 0, str |-> name]
NullV == [type |-> "object", num |-> 0, str |-> "null"]
UndefinedV == [type |-> "undefined", num |-> 0, str |-> ""]
\* Not a value: the object has no property of that name.
Absent == [type |-> "absent", num |-> 0, str |-> ""]

\* The truth value of v in a condition.
Truthy(v) ==
    CASE v.type = "boolean" -> v.num = 1
      [] v.type = "number" -> v.num # 0
      [] v.type = "string" -> v.str # ""
      [] v.type = "function" -> TRUE
      [] OTHER -> FALSE

\* const noop = () => {}
noop == FnV("noop")

\* maxConcurrent of defaultQueueOptions
DefaultMaxConcurrent == 10

hooks ==
    {"onCallbackError", "onCallbackSuccess", "onQueueIdle", "onQueueBusy",
     "onQueueStop"}

DefaultKeys == {"autoStart", "maxConcurrent"} \cup hooks

defaultQueueOptions ==
    [k \in DefaultKeys |->
        CASE k = "autoStart" -> BoolV(TRUE)
          [] k = "maxConcurrent" -> NumV(DefaultMaxConcurrent)
          [] OTHER -> noop]

\* Property names a configuration is tried with besides the seven options:
\* one that means nothing, and one that every object inherits from
\* Object.prototype.
UnknownKeys == {"foo"}
PrototypeKeys == {"toString"}
ConfigKeys == DefaultKeys \cup UnknownKeys \cup PrototypeKeys

\* key in defaultQueueOptions: own and inherited properties
InDefaults(key) == key \in DefaultKeys \cup PrototypeKeys

\* A configuration: null, or an object; props gives the value of each own
\* property (Absent: the object has no such property).
NoProps == [k \in ConfigKeys |-> Absent]
NullConfig == [null |-> TRUE, props |-> NoProps]
ObjectConfig(props) == [null |-> FALSE, props |-> props]

\* #initOptions: defaults overlaid with the configuration (options || {}),
\* then every key not in defaultQueueOptions deleted, and every hook that is
\* falsy or not a function replaced by noop.
InitOptions(cfg) ==
    LET merged == [k \in ConfigKeys |->
                      IF ~cfg.null /\ cfg.props[k] # Absent THEN cfg.props[k]
                      ELSE IF k \in DefaultKeys THEN defaultQueueOptions[k]
                      ELSE Absent]
    IN  [k \in ConfigKeys |->
            IF merged[k] = Absent THEN Absent
            ELSE IF ~InDefaults(k) THEN Absent
            ELSE IF k \in hooks /\ (~Truthy(merged[k]) \/ merged[k].type # "function")
                 THEN noop
                 ELSE merged[k]]

\* The keys of #options.
OptionKeys(opts) == {k \in ConfigKeys : opts[k] # Absent}

\* #options.maxConcurrent as #processNext reads it in
\* #concurrent >= maxConcurrent: a number, or NaN, for which the comparison
\* is false whatever #concurrent is, as it is for a cap above the number of
\* items there are.
CapRead(v) ==
    CASE v.type = "number" -> v.num
      [] v.type = "boolean" -> v.num
      [] v = NullV -> 0
      [] OTHER -> MaxItems + 1

\* Fault: constructor that sets the initial state with #setState.
ConstructorWithHook(cfg) ==
    LET opts == InitOptions(cfg)
    IN  SetState([autoStart |-> Truthy(opts["autoStart"]),
                  maxConcurrent |-> CapRead(opts["maxConcurrent"]),
                  state |-> STOPPED, pending |-> <<>>, concurrent |-> 0,
                  running |-> {}, item |-> [i \in Items |-> NewItem],
                  microQ |-> <<>>, intervals |-> 0, lastIndex |-> 0,
                  nextId |-> 1, fired |-> <<>>, threw |-> FALSE],
                 IF Truthy(opts["autoStart"]) THEN IDLE ELSE STOPPED)

\* constructor: empty queue; IDLE with autoStart, STOPPED without.
Constructor(cfg) ==
    LET opts == InitOptions(cfg)
    IN  [autoStart |-> Truthy(opts["autoStart"]),
         maxConcurrent |-> CapRead(opts["maxConcurrent"]),
         state |-> IF Truthy(opts["autoStart"]) THEN IDLE ELSE STOPPED,
         pending |-> <<>>, concurrent |-> 0, running |-> {},
         item |-> [i \in Items |-> NewItem],
         microQ |-> <<>>, intervals |-> 0, lastIndex |-> 0, nextId |-> 1,
         fired |-> <<>>, threw |-> FALSE]

\* new ConcurrentCallbackQueue(cfg): the state is that of the new object.
New(cfg) ==
    LET q == Constructor(cfg)
    IN  /\ autoStart = q.autoStart
        /\ maxConcurrent = q.maxConcurrent
        /\ state = q.state
        /\ pending = q.pending
        /\ concurrent = q.concurrent
        /\ running = q.running
        /\ item = q.item
        /\ microQ = q.microQ
        /\ intervals = q.intervals
        /\ lastIndex = q.lastIndex
        /\ nextId = q.nextId
        /\ quiet = FALSE
        /\ given = cfg
        /\ options = InitOptions(cfg)

\* The configurations the queue is run with: autoStart and maxConcurrent
\* given, valid, and nothing else.
RunConfigs ==
    {ObjectConfig([NoProps EXCEPT !["autoStart"] = BoolV(a),
                                  !["maxConcurrent"] = NumV(m)]) :
        a \in BOOLEAN, m \in 1..MaxConcurrentOption}

Init == \E cfg \in RunConfigs : New(cfg)

\* The values a configuration is tried with for each property: valid ones,
\* and ones of the wrong type.
ValuesOf(k) ==
    CASE k = "autoStart" ->
            {Absent, BoolV(TRUE), BoolV(FALSE), StrV("yes"), UndefinedV}
      [] k = "maxConcurrent" ->
            {Absent, StrV("many"), NullV}
                \cup {NumV(m) : m \in 1..MaxConcurrentOption}
      [] k \in hooks -> {Absent, NullV, StrV("hook"), FnV("user")}
      [] k \in UnknownKeys -> {Absent, StrV("bar")}
      [] OTHER -> {Absent, FnV("user")}

OwnKeys(cfg) == {k \in ConfigKeys : cfg.props[k] # Absent}

\* Constructing a queue from null or from {}.
InitConstruct == \E cfg \in {NullConfig, ObjectConfig(NoProps)} : New(cfg)

\* Constructing another queue, from the last configuration with one property
\* set, changed or removed.
Reconstruct ==
    \E k \in ConfigKeys : \E v \in ValuesOf(k) :
        LET cfg == ObjectConfig([given.props EXCEPT ![k] = v])
        IN  /\ Cardinality(OwnKeys(cfg)) <= MaxProps
            /\ CommitQueue(Constructor(cfg))
            /\ quiet' = FALSE
            /\ given' = cfg
            /\ options' = InitOptions(cfg)

ConstructSpec == InitConstruct /\ [][Reconstruct]_vars

\* What dequeue() returns: #pending.shift(), undefined (<<>>) when empty.
DequeueRet(q) ==
    IF Len(q.pending) = 0 THEN <<>> ELSE <<Head(q.pending)>>

\* Fault: dequeue() that reads the front item and leaves it in the list.
DequeuePeek(q) ==
    IF Len(q.pending) = 0
    THEN q
    ELSE [q EXCEPT !.item[Head(q.pending)] = Gone("removed")]

\* dequeue(): the front item leaves the list.
Dequeue(q) ==
    IF Len(q.pending) = 0
    THEN q
    ELSE [q EXCEPT !.pending = Tail(@),
                   !.item[Head(q.pending)] = Gone("removed")]

\* Fault: #processNext that calls the callback itself instead of leaving it
\* to the first reaction of the chain.
AdmitSync(q, i, retries, index) ==
    [q EXCEPT !.item[i].place = "running",
              !.item[i].retries = retries,
              !.item[i].index = index,
              !.item[i].calls = 1,
              !.item[i].waiting = TRUE,
              !.lastIndex = index,
              !.concurrent = @ + 1,
              !.running = {p \in @ : p[1] # index} \cup {<<index, i>>}]

\* The promise chain #processNext builds for the tuple it took: its first
\* reaction is queued at once (Promise.resolve().then(...)).
Admit(q, i, retries, index) ==
    [q EXCEPT !.item[i].place = "admitted",
              !.item[i].retries = retries,
              !.item[i].index = index,
              !.lastIndex = index,
              !.microQ = Append(@, [item |-> i, step |-> "launch"])]

\* Fault: #processNext without the check of the STOPPED state.
ProcessNextWhenStopped(q, index) ==
    IF q.concurrent >= q.maxConcurrent
    THEN q
    ELSE IF Len(q.pending) = 0
         THEN IF q.concurrent = 0 THEN SetState(q, IDLE) ELSE q
         ELSE LET tuple == DequeueRet(q)
              IN  IF tuple = <<>>
                  THEN SetState(Dequeue(q), IDLE)
                  ELSE Admit(Dequeue(q), tuple[1], q.item[tuple[1]].retries, index)

\* Fault: #processNext without the check of the concurrency cap.
ProcessNextNoCap(q, index) ==
    IF q.state = STOPPED
    THEN q
    ELSE IF Len(q.pending) = 0
         THEN IF q.concurrent = 0 THEN SetState(q, IDLE) ELSE q
         ELSE LET tuple == DequeueRet(q)
              IN  IF tuple = <<>>
                  THEN SetState(Dequeue(q), IDLE)
                  ELSE Admit(Dequeue(q), tuple[1], q.item[tuple[1]].retries, index)

\* #processNext
ProcessNext(q, index) ==
    IF q.state = STOPPED \/ q.concurrent >= q.maxConcurrent
    THEN q
    ELSE IF Len(q.pending) = 0
         THEN IF q.concurrent = 0 THEN SetState(q, IDLE) ELSE q
         ELSE LET tuple == DequeueRet(q)
              IN  IF tuple = <<>>
                  THEN SetState(Dequeue(q), IDLE)
                  ELSE Admit(Dequeue(q), tuple[1], q.item[tuple[1]].retries, index)

\* Fault: #run that processes one callback and sets no interval.
RunOnce(q, index) == ProcessNext(q, index)

\* #run: process one callback now, then on every tick of a new interval.
Run(q, index) ==
    [ProcessNext(q, index) EXCEPT !.intervals = @ + 1]

\* Fault: start() that does not set the state.
StartNoBusy(q, index) ==
    IF q.state = BUSY \/ Len(q.pending) = 0
    THEN q
    ELSE Run(q, index)

\* Fault: start() without the check of the BUSY state.
StartWhenBusy(q, index) ==
    IF Len(q.pending) = 0
    THEN q
    ELSE Run(SetState(q, BUSY), index)

\* start()
Start(q, index) ==
    IF q.state = BUSY \/ Len(q.pending) = 0
    THEN q
    ELSE Run(SetState(q, BUSY), index)

\* Fault: stop() that resumes a queue that is stopped already.
StopToggle(q) ==
    IF q.state = STOPPED THEN SetState(q, IDLE) ELSE SetState(q, STOPPED)

\* Fault: stop() that only stops a BUSY queue.
StopOnlyBusy(q) ==
    IF q.state = BUSY THEN SetState(q, STOPPED) ELSE q

\* stop()
Stop(q) == SetState(q, STOPPED)

\* What dequeueAll() returns: the old #pending array.
DequeueAllRet(q) == q.pending

\* Fault: dequeueAll() that also stops the queue, as clear() does.
DequeueAllStops(q) ==
    [SetState(q, STOPPED) EXCEPT
        !.pending = <<>>,
        !.item = [i \in Items |->
                    IF \E k \in 1..Len(q.pending) : q.pending[k] = i
                    THEN Gone("removed")
                    ELSE q.item[i]]]

\* dequeueAll()
DequeueAll(q) ==
    [q EXCEPT !.pending = <<>>,
              !.item = [i \in Items |->
                          IF \E k \in 1..Len(q.pending) : q.pending[k] = i
                          THEN Gone("removed")
                          ELSE q.item[i]]]

\* What clear() returns.
ClearRet(q) == DequeueAllRet(Stop(q))

\* Fault: clear() that does not stop the queue.
ClearNoStop(q) == DequeueAll(q)

\* clear()
Clear(q) == DequeueAll(Stop(q))

\* ------------------------------------------------------------ enqueueing

\* A retries argument r: [num |-> whether typeof r is "number", val |-> its value].

\* typeof retries !== "number" || retries < 0
BadRetries(r) == ~r.num \/ r.val < 0

\* Fault: #pending.unshift(...) in place of push: the new tuples go first.
PushFront(q, n, retries) ==
    [q EXCEPT !.pending = [k \in 1..n |-> q.nextId + k - 1] \o @,
              !.nextId = @ + n,
              !.item = [i \in Items |->
                          IF i >= q.nextId /\ i < q.nextId + n
                          THEN [q.item[i] EXCEPT !.place = "pending",
                                                 !.retries = retries]
                          ELSE q.item[i]]]

\* #pending.push(...) of the tuples {callback, retries} of the next n items.
Push(q, n, retries) ==
    [q EXCEPT !.pending = @ \o [k \in 1..n |-> q.nextId + k - 1],
              !.nextId = @ + n,
              !.item = [i \in Items |->
                          IF i >= q.nextId /\ i < q.nextId + n
                          THEN [q.item[i] EXCEPT !.place = "pending",
                                                 !.retries = retries]
                          ELSE q.item[i]]]

\* Fault: enqueue() that pushes the tuple before it checks its arguments.
EnqueueLateCheck(q, isFn, r, index) ==
    IF ~isFn \/ BadRetries(r)
    THEN [Push(q, 1, 0) EXCEPT !.threw = TRUE]
    ELSE LET q1 == Push(q, 1, r.val)
         IN  IF q1.autoStart THEN Start(q1, index) ELSE q1

\* enqueue(callback, retries); isFn: typeof callback === "function".
Enqueue(q, isFn, r, index) ==
    IF ~isFn \/ BadRetries(r)
    THEN [q EXCEPT !.threw = TRUE]
    ELSE LET q1 == Push(q, 1, r.val)
         IN  IF q1.autoStart THEN Start(q1, index) ELSE q1

\* Fault: enqueueAll() that pushes the tuples before it checks its arguments.
EnqueueAllLateCheck(q, n, allFns, r, index) ==
    IF ~allFns \/ BadRetries(r)
    THEN [Push(q, n, 0) EXCEPT !.threw = TRUE]
    ELSE LET q1 == Push(q, n, r.val)
         IN  IF q1.autoStart THEN Start(q1, index) ELSE q1

\* enqueueAll(callbacks, retries); n: the array's length; allFns: it is an
\* array and every element of it is a function.
EnqueueAll(q, n, allFns, r, index) ==
    IF ~allFns \/ BadRetries(r)
    THEN [q EXCEPT !.threw = TRUE]
    ELSE LET q1 == Push(q, n, r.val)
         IN  IF q1.autoStart THEN Start(q1, index) ELSE q1

\* --------------------------------------------------- the promise chain

\* callback() is called from retryCallback: one more invocation, and the
\* wrapper awaits what it returned.
Invoke(q, i) ==
    [q EXCEPT !.item[i].calls = @ + 1, !.item[i].waiting = TRUE]

PopMicro(q) == [q EXCEPT !.microQ = Tail(@)]

\* The first reaction of the chain: count the item as running, register it
\* under its index, and call the retry wrapper (attempt 0).
LaunchStep(q, i) ==
    Invoke([q EXCEPT !.concurrent = @ + 1,
                     !.running = {p \in @ : p[1] # q.item[i].index}
                                 \cup {<<q.item[i].index, i>>},
                     !.item[i].place = "running"],
           i)

\* Fault: catch block that retries while currentRetry <= retries.
RejectedStepOneMore(q, i) ==
    IF q.item[i].attempt <= q.item[i].retries
    THEN Invoke([q EXCEPT !.item[i].nErr = @ + 1,
                          !.item[i].attempt = @ + 1],
                i)
    ELSE [q EXCEPT !.microQ = Append(@, [item |-> i, step |-> "catch"])]

\* Fault: catch block that retries without calling the error hook.
RejectedStepSilent(q, i) ==
    IF q.item[i].attempt < q.item[i].retries
    THEN Invoke([q EXCEPT !.item[i].attempt = @ + 1], i)
    ELSE [q EXCEPT !.microQ = Append(@, [item |-> i, step |-> "catch"])]

\* Fault: catch block whose retry takes a slot of its own.
RejectedStepNewSlot(q, i) ==
    IF q.item[i].attempt < q.item[i].retries
    THEN Invoke([q EXCEPT !.item[i].nErr = @ + 1,
                          !.item[i].attempt = @ + 1,
                          !.concurrent = @ + 1],
                i)
    ELSE [q EXCEPT !.microQ = Append(@, [item |-> i, step |-> "catch"])]

\* retryCallback's catch block: retry (after the error hook) while
\* currentRetry < retries, else rethrow: the chain goes on to .catch.
RejectedStep(q, i) ==
    IF q.item[i].attempt < q.item[i].retries
    THEN Invoke([q EXCEPT !.item[i].nErr = @ + 1,
                          !.item[i].attempt = @ + 1],
                i)
    ELSE [q EXCEPT !.microQ = Append(@, [item |-> i, step |-> "catch"])]

\* .then(() => this.#options.onCallbackSuccess())
SuccessStep(q, i) ==
    [q EXCEPT !.item[i].nSucc = @ + 1,
              !.item[i].outcome = "success",
              !.microQ = Append(@, [item |-> i, step |-> "finally"])]

\* Fault: .catch(...) that swallows the error without calling the hook.
CatchStepSilent(q, i) ==
    [q EXCEPT !.item[i].outcome = "error",
              !.microQ = Append(@, [item |-> i, step |-> "finally"])]

\* .catch((error) => this.#handleError(error))
CatchStep(q, i) ==
    [q EXCEPT !.item[i].nErr = @ + 1,
              !.item[i].outcome = "error",
              !.microQ = Append(@, [item |-> i, step |-> "finally"])]

\* Fault: .finally(...) that sets IDLE without looking at the state.
FinallyStepAnyState(q, i) ==
    LET q1 == [q EXCEPT !.concurrent = @ - 1,
                        !.running = {p \in @ : p[1] # q.item[i].index},
                        !.item[i] = Gone("done")]
    IN  IF q1.concurrent = 0 /\ Len(q1.pending) = 0
        THEN SetState(q1, IDLE)
        ELSE q1

\* Fault: .finally(...) that hands the freed slot to the next pending item
\* whatever the state is.
FinallyStepRefill(q, i) ==
    LET q1 == [q EXCEPT !.concurrent = @ - 1,
                        !.running = {p \in @ : p[1] # q.item[i].index},
                        !.item[i] = Gone("done")]
    IN  IF Len(q1.pending) > 0
        THEN Admit(Dequeue(q1), Head(q1.pending),
                   q1.item[Head(q1.pending)].retries, q1.lastIndex)
        ELSE IF q1.state = BUSY /\ q1.concurrent = 0
             THEN SetState(q1, IDLE)
             ELSE q1

\* .finally(...): release the slot; IDLE when this was the last running
\* task of a BUSY queue with nothing pending.
FinallyStep(q, i) ==
    LET q1 == [q EXCEPT !.concurrent = @ - 1,
                        !.running = {p \in @ : p[1] # q.item[i].index},
                        !.item[i] = Gone("done")]
    IN  IF q1.state = BUSY /\ q1.concurrent = 0 /\ Len(q1.pending) = 0
        THEN SetState(q1, IDLE)
        ELSE q1

\* The promise an attempt awaits settles. Fulfilled: retryCallback returns,
\* its promise fulfils and the chain goes on to .then(onCallbackSuccess).
\* Rejected: the catch block of retryCallback runs next.
SettleStep(q, i, ok) ==
    [q EXCEPT !.item[i].waiting = FALSE,
              !.microQ = Append(@, [item |-> i,
                                    step |-> IF ok THEN "success" ELSE "rejected"])]

\* Fault: interval that clears itself only when nothing is pending.
IntervalTickUntilEmpty(q, index) ==
    LET q1 == ProcessNext(q, index)
    IN  IF Len(q1.pending) = 0
        THEN [q1 EXCEPT !.intervals = @ - 1]
        ELSE q1

\* One tick of the interval of #run: #processNext, then clearInterval once
\* the queue is not BUSY or nothing is pending.
IntervalTick(q, index) ==
    LET q1 == ProcessNext(q, index)
    IN  IF q1.state # BUSY \/ Len(q1.pending) = 0
        THEN [q1 EXCEPT !.intervals = @ - 1]
        ELSE q1

\* ---------------------------------------------------------------- actions

\* Caller operations. They run in the caller's code, which may itself be a
\* promise reaction, so they can come between any two steps.

\* The arguments tried: every valid pair, and one of each invalid kind.
EnqueueArgs ==
    [isFn : {TRUE}, r : [num : {TRUE}, val : 0..MaxRetries]]
    \cup {[isFn |-> FALSE, r |-> [num |-> TRUE, val |-> 0]],
          [isFn |-> TRUE, r |-> [num |-> TRUE, val |-> -1]],
          [isFn |-> TRUE, r |-> [num |-> FALSE, val |-> 0]]}

\* The arguments enqueue and enqueueAll reject.
InvalidArgs == {a \in EnqueueArgs : ~a.isFn \/ BadRetries(a.r)}

\* At most MaxItems items are enqueued, and at most MaxIntervals timers live.
DoEnqueue ==
    \E a \in EnqueueArgs, index \in DateNow :
       /\ (a.isFn /\ ~BadRetries(a.r)) => nextId + 1 <= MaxItems + 1
       /\ LET q == Enqueue(Cur, a.isFn, a.r, index)
          IN  /\ q.intervals <= MaxIntervals
              /\ Commit(q)

DoEnqueueAll ==
    \E n \in 0..MaxBatch, a \in EnqueueArgs, index \in DateNow :
       /\ (a.isFn /\ ~BadRetries(a.r)) => nextId + n <= MaxItems + 1
       /\ LET q == EnqueueAll(Cur, n, a.isFn, a.r, index)
          IN  /\ q.intervals <= MaxIntervals
              /\ Commit(q)

DoStart ==
    \E index \in DateNow :
       LET q == Start(Cur, index)
       IN  /\ q.intervals <= MaxIntervals
           /\ Commit(q)

DoStop ==
    /\ Commit(Stop(Cur))

DoClear ==
    /\ Commit(Clear(Cur))

DoDequeue ==
    /\ Commit(Dequeue(Cur))

DoDequeueAll ==
    /\ Commit(DequeueAll(Cur))

\* Promise reactions: the head of the microtask queue runs.

HeadIs(step) == microQ # <<>> /\ Head(microQ).step = step

Launch ==
    /\ HeadIs("launch")
    /\ Commit(LaunchStep(PopMicro(Cur), Head(microQ).item))

Rejected ==
    /\ HeadIs("rejected")
    /\ Commit(RejectedStep(PopMicro(Cur), Head(microQ).item))

OnSuccess ==
    /\ HeadIs("success")
    /\ Commit(SuccessStep(PopMicro(Cur), Head(microQ).item))

OnCatch ==
    /\ HeadIs("catch")
    /\ Commit(CatchStep(PopMicro(Cur), Head(microQ).item))

Finally ==
    /\ HeadIs("finally")
    /\ Commit(FinallyStep(PopMicro(Cur), Head(microQ).item))

\* The promise a callback returned settles, at once or any time later
\* (whatever settles it is the callback's own business).
SettleOf(i) ==
    /\ item[i].waiting
    /\ \E ok \in BOOLEAN : Commit(SettleStep(Cur, i, ok))

Settle == \E i \in Items : SettleOf(i)

\* A timer task of the event loop: it runs only when no microtask is left.
Tick ==
    /\ microQ = <<>>
    /\ intervals > 0
    /\ \E index \in DateNow : Commit(IntervalTick(Cur, index))

Next ==
    \/ DoEnqueue
    \/ DoEnqueueAll
    \/ DoStart
    \/ DoStop
    \/ DoClear
    \/ DoDequeue
    \/ DoDequeueAll
    \/ Launch
    \/ Rejected
    \/ OnSuccess
    \/ OnCatch
    \/ Finally
    \/ Settle
    \/ Tick

Spec == Init /\ [][Next]_vars

\* The caller never calls stop(), clear(), dequeue() or dequeueAll(), the
\* queue was built with autoStart, and the event loop keeps running: every
\* queued promise reaction runs, every live interval ticks, and every
\* promise a callback returned settles.
InitAuto == Init /\ autoStart

MicroStep == Launch \/ Rejected \/ OnSuccess \/ OnCatch \/ Finally

NextAuto ==
    \/ DoEnqueue
    \/ DoEnqueueAll
    \/ DoStart
    \/ MicroStep
    \/ Settle
    \/ Tick

LiveSpec ==
    /\ InitAuto
    /\ [][NextAuto]_vars
    /\ WF_vars(MicroStep)
    /\ WF_vars(Tick)
    /\ \A i \in Items : WF_vars(SettleOf(i))

\* The caller calls start() with items pending, and from then on calls
\* neither stop() nor clear() nor enqueue/enqueueAll; the event loop keeps
\* running and every callback settles.
LastStart ==
    /\ ~quiet
    /\ pending # <<>>
    /\ \E index \in DateNow :
          LET q == Start(Cur, index)
          IN  /\ q.intervals <= MaxIntervals
              /\ CommitQueue(q)
    /\ quiet' = TRUE
    /\ UNCHANGED <<given, options>>

NextRun ==
    \/ ~quiet /\ Next
    \/ LastStart
    \/ quiet /\ (DoStart \/ DoDequeue \/ DoDequeueAll \/ MicroStep \/ Settle \/ Tick)

RunSpec ==
    /\ Init
    /\ [][NextRun]_vars
    /\ WF_vars(MicroStep)
    /\ WF_vars(Tick)
    /\ \A i \in Items : WF_vars(SettleOf(i))

\* An autoStart queue whose caller only calls enqueue and enqueueAll.
NextEnqueueOnly ==
    \/ DoEnqueue
    \/ DoEnqueueAll
    \/ MicroStep
    \/ Settle
    \/ Tick

EnqueueOnlySpec == InitAuto /\ [][NextEnqueueOnly]_vars

\* The caller calls start() on a queue that is not BUSY, with items pending
\* and nothing in flight, and then leaves the queue alone. The event loop
\* keeps running; the callbacks settle or not, as they please.
CleanStart ==
    /\ ~quiet
    /\ pending # <<>>
    /\ state # BUSY
    /\ \A i \in Items : item[i].place \notin {"admitted", "running"}
    /\ \E index \in DateNow :
          LET q == Start(Cur, index)
          IN  /\ q.intervals <= MaxIntervals
              /\ CommitQueue(q)
    /\ quiet' = TRUE
    /\ UNCHANGED <<given, options>>

NextParallel ==
    \/ ~quiet /\ Next
    \/ CleanStart
    \/ quiet /\ (MicroStep \/ Settle \/ Tick)

ParallelSpec ==
    /\ Init
    /\ [][NextParallel]_vars
    /\ WF_vars(MicroStep)
    /\ WF_vars(Tick)

\* Result hooks that throw.

\* Fault: a throwing onCallbackSuccess that ends the chain: nothing follows.
SuccessHookThrowsUncaught(q, i) ==
    [q EXCEPT !.item[i].nSucc = @ + 1,
              !.item[i].outcome = "success",
              !.threw = TRUE]

\* .then(() => this.#options.onCallbackSuccess()) with a hook that throws:
\* the promise of .then rejects and .catch runs next.
SuccessHookThrows(q, i) ==
    [q EXCEPT !.item[i].nSucc = @ + 1,
              !.item[i].outcome = "success",
              !.threw = TRUE,
              !.microQ = Append(@, [item |-> i, step |-> "catch"])]

\* .catch((error) => this.#handleError(error)) with a hook that throws: the
\* promise of .catch rejects; .finally runs next all the same.
ErrorHookThrows(q, i) == [CatchStep(q, i) EXCEPT !.threw = TRUE]

\* retryCallback's catch block with currentRetry < retries and a hook that
\* throws: #handleError throws before the retry, every retryCallback on the
\* stack rejects, and the chain goes on to .catch.
RetryHookThrows(q, i) ==
    [q EXCEPT !.item[i].nErr = @ + 1,
              !.threw = TRUE,
              !.microQ = Append(@, [item |-> i, step |-> "catch"])]

OnSuccessThrows ==
    /\ HeadIs("success")
    /\ Commit(SuccessHookThrows(PopMicro(Cur), Head(microQ).item))

OnCatchThrows ==
    /\ HeadIs("catch")
    /\ Commit(ErrorHookThrows(PopMicro(Cur), Head(microQ).item))

RejectedThrows ==
    /\ HeadIs("rejected")
    /\ item[Head(microQ).item].attempt < item[Head(microQ).item].retries
    /\ Commit(RetryHookThrows(PopMicro(Cur), Head(microQ).item))

MicroStepThrows == OnSuccessThrows \/ OnCatchThrows \/ RejectedThrows

\* The queue with onCallbackSuccess and onCallbackError hooks that may throw.
NextThrowing == Next \/ MicroStepThrows

ThrowSpec ==
    /\ Init
    /\ [][NextThrowing]_vars
    /\ WF_vars(MicroStep \/ MicroStepThrows)

\* The queue on an event loop that keeps running: a queued reaction runs,
\* and a scheduled timer ticks once no reaction is queued.
TimerSpec ==
    /\ Init
    /\ [][Next]_vars
    /\ WF_vars(MicroStep)
    /\ WF_vars(Tick)

\* ----------------------------------------------------------------- claims

\* Items taken by #processNext whose chain has not reached .finally yet.
InFlight == {i \in Items : item[i].place \in {"admitted", "running"}}

\* The step invokes item i for the first time.
FirstInvoked(i) == item[i].place = "admitted" /\ item'[i].place = "running"

\* The step takes item i for execution (#processNext builds its chain).
Admitted(i) == item[i].place \in {"new", "pending"} /\ item'[i].place = "admitted"

\* The step completes item i (.finally of its chain).
Completed(i) == item[i].place = "running" /\ item'[i].place = "done"

\* The reactions of item i's chain waiting in the microtask queue.
Reactions(i) == {k \in 1..Len(microQ) : microQ[k].item = i}

\* C1: the number of items admitted and not yet completed, and the value of
\* getRunningCount(), never exceed maxConcurrent.
C1_NeverExceedsMaxConcurrent ==
    /\ concurrent <= maxConcurrent
    /\ Cardinality(InFlight) <= maxConcurrent

\* C2: with autoStart and no stop/clear/dequeue/dequeueAll, when the event
\* loop keeps running and every callback settles, every enqueued item is
\* eventually invoked.
C2_EveryItemEventuallyInvoked ==
    \A i \in Items :
        [](item[i].place = "pending" => <>(item[i].place \in {"running", "done"}))

\* C3: items are admitted and first invoked in the order they were appended
\* to the pending list (items are numbered in that order), and the pending
\* list holds consecutive items in order: enqueueAll appends its batch
\* contiguously, in the batch's order.
C3_FifoOrder ==
    [][/\ \A i \in Items : FirstInvoked(i) =>
              \A j \in Items : j > i => item[j].place \notin {"running", "done"}
       /\ \A i \in Items : Admitted(i) =>
              \A j \in Items : /\ j < i => item[j].place # "pending"
                               /\ j > i => item[j].place \in {"new", "pending"}
       /\ \A k \in 1..(Len(pending') - 1) : pending'[k + 1] = pending'[k] + 1
      ]_vars

\* Both items were launched, the second while the first was running or after.
C3_Witness ==
    /\ item[1].place \in {"running", "done"}
    /\ item[2].place = "running"

\* C4: while the state is STOPPED, the completion of an in-flight item leaves
\* the state STOPPED and the pending list as it is, and admits no item.
C4_CompletionKeepsStopped ==
    [][\A i \in Items : (state = STOPPED /\ Completed(i)) =>
           /\ state' = STOPPED
           /\ pending' = pending
           /\ \A j \in Items : ~Admitted(j)
      ]_vars

\* The queue is stopped with an item pending, nothing else running, and the
\* last running item's .finally is the next reaction to run.
C4_Witness ==
    /\ state = STOPPED
    /\ pending # <<>>
    /\ concurrent = 1
    /\ HeadIs("finally")

C6_NoFirstInvocationWhenStopped ==
    [][\A i \in Items : FirstInvoked(i) => state # STOPPED]_vars

\* C7: an item that ended in terminal failure (every attempt failed) was
\* invoked retries + 1 times, with onCallbackError called retries + 1 times
\* and onCallbackSuccess never; no item is invoked more than retries + 1 times.
C7_AlwaysFailing ==
    \A i \in Items :
        /\ item[i].calls <= item[i].retries + 1
        /\ item[i].outcome = "error" =>
              /\ item[i].calls = item[i].retries + 1
              /\ item[i].nErr = item[i].retries + 1
              /\ item[i].nSucc = 0

\* An item with retries >= 1 ended in terminal failure.
C7_Witness ==
    \E i \in Items : item[i].outcome = "error" /\ item[i].retries >= 1

\* C8 (as stated): for an item that succeeded, onCallbackSuccess was called
\* once and onCallbackError never.
C8_SuccessWithoutErrorHook ==
    \A i \in Items :
        item[i].outcome = "success" => item[i].nSucc = 1 /\ item[i].nErr = 0

\* C8 (amended): for an item that succeeded on some attempt, no further
\* attempt is made (nothing awaited, .finally is all that is left of its
\* chain), onCallbackSuccess was called once, and onCallbackError was called
\* once for each failed attempt before the successful one and not again.
C8_SuccessAfterFailedAttempts ==
    \A i \in Items :
        item[i].outcome = "success" =>
            /\ item[i].nSucc = 1
            /\ item[i].nErr = item[i].attempt
            /\ item[i].calls = item[i].attempt + 1
            /\ ~item[i].waiting
            /\ \A k \in Reactions(i) : microQ[k].step = "finally"
            /\ Cardinality(Reactions(i)) = 1

\* An item succeeded on a retry.
C8_Witness ==
    \E i \in Items : item[i].outcome = "success" /\ item[i].attempt >= 1

\* C9: clear() returns the pending list as it is, leaves it empty and the
\* state STOPPED; what is in flight is not returned and not touched: every
\* chain goes on (its callback awaited or its next reaction queued) and
\* reaches .finally only after onCallbackSuccess or onCallbackError.
C9_Clear ==
    LET q == Clear(Cur)
    IN  /\ ClearRet(Cur) = pending
        /\ q.pending = <<>>
        /\ q.state = STOPPED
        /\ \A k \in 1..Len(pending) : pending[k] \notin InFlight
        /\ \A i \in InFlight : q.item[i] = item[i]
        /\ q.microQ = microQ
        /\ q.concurrent = concurrent
        /\ q.running = running
        /\ \A i \in InFlight :
              /\ Cardinality(Reactions(i)) + (IF item[i].waiting THEN 1 ELSE 0) = 1
              /\ \A k \in Reactions(i) :
                    microQ[k].step = "finally" => item[i].outcome # "none"

\* A queue cleared with an item in flight: the item removed was handed
\* back, the other one has since called its hook.
C9_Witness ==
    /\ state = STOPPED
    /\ pending = <<>>
    /\ \E i \in Items : item[i].place = "removed"
    /\ \E i \in Items : item[i].place = "running" /\ item[i].outcome # "none"

\* C10: an item handed back by dequeue(), dequeueAll() or clear() is never
\* invoked and calls no hook afterwards; an item is admitted once only, from
\* the pending list, and invoked at most retries + 1 times.
C10_RemovedNeverRuns ==
    [][\A i \in Items :
          /\ item[i].place \in {"removed", "done"} => item'[i] = item[i]
          /\ item[i].place = "removed" => Reactions(i) = {}
          /\ item[i].place \in {"admitted", "running"} =>
                Cardinality(Reactions(i)) + (IF item[i].waiting THEN 1 ELSE 0) = 1
          /\ (\E k \in 1..Len(pending) : pending[k] = i) <=> item[i].place = "pending"
          /\ item[i].calls <= item[i].retries + 1
      ]_vars

\* One item was handed back to the caller while the other one was invoked.
C10_Witness ==
    /\ \E i \in Items : item[i].place = "removed"
    /\ \E i \in Items : item[i].place \in {"running", "done"}

\* What a call leaves of the scheduler: q against the state the step began in.
SameScheduler(q) ==
    /\ q.pending = pending
    /\ q.concurrent = concurrent
    /\ q.state = state
    /\ q.running = running
    /\ q.item = item
    /\ q.microQ = microQ
    /\ q.intervals = intervals
    /\ q.fired = <<>>

\* C11: enqueue with a callback that is not a function, or with retries not
\* a number or negative, throws and leaves the pending list, the in-flight
\* count and the state as they were, calls no hook and admits nothing.
C11_InvalidEnqueue ==
    \A a \in InvalidArgs, index \in DateNow :
        LET q == Enqueue(Cur, a.isFn, a.r, index)
        IN  q.threw /\ SameScheduler(q)

\* An autoStart queue that is stopped with an item pending and room for it:
\* an enqueue that went through would restart it.
C11_Witness ==
    /\ autoStart
    /\ state = STOPPED
    /\ pending # <<>>
    /\ concurrent < maxConcurrent

\* The pending list with the next n items appended.
Appended(n) == pending \o [k \in 1..n |-> nextId + k - 1]

\* C12: enqueueAll with a non-array, an array holding a non-function, or
\* invalid retries throws and appends nothing: the scheduler is as it was.
\* Otherwise every element is appended, in order (and start() may take the
\* front of the list at once).
C12_EnqueueAllAllOrNothing ==
    \A n \in 0..MaxBatch, a \in EnqueueArgs, index \in DateNow :
        LET q == EnqueueAll(Cur, n, a.isFn, a.r, index)
        IN  IF a \in InvalidArgs
            THEN q.threw /\ SameScheduler(q)
            ELSE nextId + n <= MaxItems + 1 =>
                   /\ ~q.threw
                   /\ q.nextId = nextId + n
                   /\ \/ q.pending = Appended(n)
                      \/ /\ Appended(n) # <<>>
                         /\ q.pending = Tail(Appended(n))
                         /\ q.item[Head(Appended(n))].place = "admitted"

\* Two or more items were appended and wait in the pending list.
C12_Witness == Len(pending) >= 2

\* C13: after start() on a scheduler with pending items, with no stop() and
\* no enqueue afterwards and every callback settling, the state eventually
\* is IDLE with nothing pending and nothing running, and it is not IDLE
\* while an admitted item has not completed.
C13_StartRunsToIdle ==
    /\ quiet ~> (state = IDLE /\ pending = <<>> /\ concurrent = 0)
    /\ [](quiet /\ state = IDLE => InFlight = {})

\* C14 (as stated): start() with items pending and the state IDLE or STOPPED
\* sets the state to BUSY, calls onQueueBusy once (and no other hook), and
\* admits the item at the front of the pending list.
C14_StartAdmitsFront ==
    (pending # <<>> /\ state \in {IDLE, STOPPED}) =>
        \A index \in DateNow :
            LET q == Start(Cur, index)
            IN  /\ q.state = BUSY
                /\ q.fired = <<"onQueueBusy">>
                /\ q.pending = Tail(pending)
                /\ q.item[Head(pending)].place = "admitted"

\* C14 (amended): start() with items pending and the state IDLE or STOPPED
\* sets the state to BUSY, calls onQueueBusy once (and no other hook) and
\* starts an interval; it admits the item at the front of the pending list
\* when getRunningCount() is below maxConcurrent, and admits nothing (the
\* pending list is as it was) when it is not.
C14_StartAdmitsFrontIfRoom ==
    (pending # <<>> /\ state \in {IDLE, STOPPED}) =>
        \A index \in DateNow :
            LET q == Start(Cur, index)
            IN  /\ q.state = BUSY
                /\ q.fired = <<"onQueueBusy">>
                /\ q.intervals = intervals + 1
                /\ IF concurrent < maxConcurrent
                   THEN /\ q.pending = Tail(pending)
                        /\ q.item[Head(pending)].place = "admitted"
                        /\ q.microQ = Append(microQ, [item |-> Head(pending),
                                                      step |-> "launch"])
                   ELSE /\ q.pending = pending
                        /\ q.item = item
                        /\ q.microQ = microQ

\* A stopped queue with an item pending and every slot taken.
C14_Witness ==
    /\ state = STOPPED
    /\ pending # <<>>
    /\ concurrent >= maxConcurrent

\* C15: start() when the state is BUSY or nothing is pending changes nothing:
\* state, pending list, in-flight count, no hook, no new interval.
C15_StartNoOp ==
    (state = BUSY \/ pending = <<>>) =>
        \A index \in DateNow :
            LET q == Start(Cur, index)
            IN  SameScheduler(q) /\ ~q.threw /\ q.lastIndex = lastIndex

\* A BUSY queue with an item pending and a free slot.
C15_Witness ==
    /\ state = BUSY
    /\ pending # <<>>
    /\ concurrent < maxConcurrent

\* C16: stop() called twice leaves the state (STOPPED), the pending list and
\* the in-flight count as stop() called once leaves them.
C16_StopIdempotent ==
    LET q1 == Stop(Cur)
        q2 == Stop(q1)
    IN  /\ q1.state = STOPPED
        /\ q2.state = q1.state
        /\ q2.pending = q1.pending
        /\ q2.concurrent = q1.concurrent
        /\ q2.running = q1.running
        /\ q2.item = q1.item

\* A queue stopped with an item pending and an item running.
C16_Witness ==
    /\ state = STOPPED
    /\ pending # <<>>
    /\ concurrent > 0

\* C17: stop() sets the state to STOPPED from any state and changes nothing
\* else: the pending list, the items in flight and their chains are as they
\* were.
C17_StopOnlySetsState ==
    LET q == Stop(Cur)
    IN  /\ q.state = STOPPED
        /\ q.pending = pending
        /\ q.concurrent = concurrent
        /\ q.running = running
        /\ q.item = item
        /\ q.microQ = microQ

\* A BUSY queue with an item pending, and an item in flight.
C17_Witness ==
    /\ state = BUSY
    /\ pending # <<>>
    /\ InFlight # {}

\* C18: with maxConcurrent = 1 an item is first invoked only when no other
\* item is running, and items complete in the order they were enqueued.
C18_SequentialWhenOne ==
    [][maxConcurrent = 1 =>
          \A i \in Items :
              /\ FirstInvoked(i) =>
                    \A j \in Items \ {i} : item[j].place # "running"
              /\ Completed(i) =>
                    \A j \in Items : j < i => item[j].place \in {"done", "removed"}
      ]_vars

\* C19: on an autoStart queue whose caller only enqueues, getRunningCount()
\* never exceeds maxConcurrent.
C19_RunningCountWithinCap == concurrent <= maxConcurrent

\* Every slot is taken and an item waits.
C19_Witness ==
    /\ concurrent = maxConcurrent
    /\ pending # <<>>

C21_NewScheduler ==
    /\ pending = <<>>
    /\ concurrent = 0
    /\ running = {}
    /\ InFlight = {}
    /\ options["autoStart"] = BoolV(TRUE) => state = IDLE
    /\ options["autoStart"] = BoolV(FALSE) => state = STOPPED
    /\ Constructor(given).fired = <<>>
    /\ Constructor(given).state = state

C21_Witness ==
    /\ given.props["autoStart"] = BoolV(FALSE)
    /\ given.props["onQueueStop"] = FnV("user")
    /\ state = STOPPED

\* ---- C22
\* enqueue or enqueueAll took the step and left everything but the pending
\* list, and the items it appended, as it was.
OnlyAppends ==
    /\ state' = state
    /\ concurrent' = concurrent
    /\ running' = running
    /\ microQ' = microQ
    /\ intervals' = intervals
    /\ \E n \in 0..MaxBatch : pending' = Appended(n)
    /\ \A i \in Items : ~Admitted(i) /\ ~FirstInvoked(i)

\* C22: with autoStart false, enqueue and enqueueAll only append to the
\* pending list, changing no state and invoking nothing, and an item that is
\* pending while the state is STOPPED or IDLE is taken from the list for
\* invocation by no step other than a call of start().
C22_NoInvocationUntilStart ==
    [][~autoStart =>
          /\ (DoEnqueue \/ DoEnqueueAll) => OnlyAppends
          /\ \A i \in Items :
                state \in {STOPPED, IDLE} /\ Admitted(i) => DoStart]_vars

\* ---- C23
\* The items of the sequence s.
Range(s) == {s[k] : k \in 1..Len(s)}

\* C23: across stop() and start() no pending item is lost, duplicated or
\* reordered: an item leaves the pending list only from its front, taken for
\* execution or removed by the caller, and the rest keeps its order with new
\* items behind it; stop() itself takes nothing; while the state is STOPPED
\* no item is taken unless the step is a start() that sets BUSY (called by
\* the caller, or by enqueue and enqueueAll when autoStart is set), so a slot
\* freed meanwhile is not refilled; and the item taken is always the one at
\* the front.
C23_StopStartKeepsPending ==
    /\ [](/\ Cardinality(Range(pending)) = Len(pending)
          /\ \A i \in Range(pending) : item[i].place = "pending")
    /\ [][/\ \E n \in 0..MaxBatch : \E k \in 0..(Len(pending) + n) :
               pending' = SubSeq(Appended(n), k + 1, Len(pending) + n)
          /\ \A i \in Range(pending) \ Range(pending') :
               Admitted(i) \/ item'[i].place = "removed"
          /\ \A i \in Items :
               Admitted(i) =>
                   \E n \in 0..MaxBatch :
                       /\ Appended(n) # <<>>
                       /\ i = Head(Appended(n))
                       /\ pending' = Tail(Appended(n))
          /\ \A i \in Items :
               state = STOPPED /\ Admitted(i) =>
                   /\ state' = BUSY
                   /\ DoStart \/ (autoStart /\ (DoEnqueue \/ DoEnqueueAll))
          /\ state' = STOPPED /\ state # STOPPED =>
               pending' \in {pending, <<>>} /\ \A i \in Items : ~Admitted(i)
          ]_vars

C23_Witness ==
    /\ autoStart
    /\ state = STOPPED
    /\ pending # <<>>
    /\ concurrent < maxConcurrent
    /\ \E i \in Items : item[i].place = "done"

\* ---- C24
\* What each call the caller can make now would do.
StopSteps == {Stop(Cur), Clear(Cur)}

CallerSteps ==
    {Enqueue(Cur, a.isFn, a.r, index) :
        a \in {b \in EnqueueArgs : b \in InvalidArgs \/ nextId <= MaxItems},
        index \in DateNow}
    \cup {EnqueueAll(Cur, n, a.isFn, a.r, index) :
            n \in {m \in 0..MaxBatch : nextId + m <= MaxItems + 1},
            a \in EnqueueArgs, index \in DateNow}
    \cup {Start(Cur, index) : index \in DateNow}
    \cup {Dequeue(Cur), DequeueAll(Cur)}

\* What each step the event loop can take now would do.
EventLoopSteps ==
    (IF microQ = <<>>
     THEN {}
     ELSE LET i == Head(microQ).item
              step == Head(microQ).step
          IN  {CASE step = "launch" -> LaunchStep(PopMicro(Cur), i)
                 [] step = "rejected" -> RejectedStep(PopMicro(Cur), i)
                 [] step = "success" -> SuccessStep(PopMicro(Cur), i)
                 [] step = "catch" -> CatchStep(PopMicro(Cur), i)
                 [] step = "finally" -> FinallyStep(PopMicro(Cur), i)})
    \cup {SettleStep(Cur, i, ok) :
            i \in {j \in Items : item[j].waiting}, ok \in BOOLEAN}
    \cup (IF microQ = <<>> /\ intervals > 0
          THEN {IntervalTick(Cur, index) : index \in DateNow}
          ELSE {})

\* How many times the step q called hook h.
Times(h, q) == Cardinality({k \in 1..Len(q.fired) : q.fired[k] = h})

\* C24: onQueueBusy is called once by a step that changes the state into
\* BUSY and by no other step; onQueueStop is called once by stop() and by
\* clear(), which leave the state STOPPED, and by no step of the event loop
\* (a queue that drains goes IDLE), nor by any other call.
C24_BusyAndStopHooks ==
    /\ \A q \in StopSteps \cup CallerSteps \cup EventLoopSteps :
          Times("onQueueBusy", q)
              = IF q.state = BUSY /\ state # BUSY THEN 1 ELSE 0
    /\ \A q \in StopSteps :
          Times("onQueueStop", q) = 1 /\ q.state = STOPPED
    /\ \A q \in CallerSteps \cup EventLoopSteps :
          /\ Times("onQueueStop", q) = 0
          /\ q.state = STOPPED => state = STOPPED

\* The last running item of a BUSY queue is about to complete.
C24_Witness ==
    /\ state = BUSY
    /\ HeadIs("finally")
    /\ concurrent = 1
    /\ pending = <<>>
    /\ FinallyStep(PopMicro(Cur), Head(microQ).item).state = IDLE

\* ---- C25
\* C25: whatever configuration the constructor is given, getOptions() has
\* exactly the seven option keys (every other key is dropped), every hook
\* that was absent, null or not a function is noop, and every key that was
\* not supplied has its default value.
C25_NormalizedOptions ==
    /\ OptionKeys(options) = DefaultKeys
    /\ \A h \in hooks :
          (given.null \/ given.props[h].type # "function") => options[h] = noop
    /\ \A k \in DefaultKeys :
          (given.null \/ given.props[k] = Absent) =>
              options[k] = defaultQueueOptions[k]

\* ---- C26
\* C26: a supplied autoStart that is not a boolean, and a supplied
\* maxConcurrent that is not a number, are replaced by the defaults in
\* getOptions().
C26_InvalidFallsBack ==
    ~given.null =>
        /\ given.props["autoStart"] # Absent
              /\ given.props["autoStart"].type # "boolean"
              => options["autoStart"] = defaultQueueOptions["autoStart"]
        /\ given.props["maxConcurrent"] # Absent
              /\ given.props["maxConcurrent"].type # "number"
              => options["maxConcurrent"] = defaultQueueOptions["maxConcurrent"]

\* ---- C27
\* C27: a step that assigns IDLE to the state (and so calls onQueueIdle)
\* does it with the pending list empty, with no item admitted and not yet
\* completed, and from a state other than STOPPED.
C27_IdleOnlyWhenDrained ==
    \A q \in StopSteps \cup CallerSteps \cup EventLoopSteps :
        Times("onQueueIdle", q) > 0 =>
            /\ q.pending = <<>>
            /\ \A i \in Items : q.item[i].place \notin {"admitted", "running"}
            /\ state # STOPPED

\* ---- C28
\* C28: whenever getState() is IDLE, getPendingCount() is 0.
C28_IdleHasNoPending == state = IDLE => Len(pending) = 0

\* ---- C29
\* C29: whenever getState() is IDLE, getRunningCount() is 0 and no item is in
\* flight; and an item is taken from the pending list only by a step that
\* finds the state BUSY or, being a start(), sets it BUSY before taking the
\* item and leaves it BUSY.
C29_AdmissionOnlyWhenBusy ==
    /\ [](state = IDLE => concurrent = 0 /\ InFlight = {})
    /\ [][\A i \in Items : Admitted(i) => state' = BUSY]_vars

\* ---- C30
\* C30: a step calls onQueueIdle once when it changes the state from BUSY to
\* IDLE, and no step calls it otherwise; in particular not while the state
\* is IDLE already.
C30_IdleHookOncePerDrain ==
    \A q \in StopSteps \cup CallerSteps \cup EventLoopSteps :
        Times("onQueueIdle", q)
            = IF state = BUSY /\ q.state = IDLE THEN 1 ELSE 0

\* ---- C31
\* The items whose place is p.
ItemsAt(p) == {i \in Items : item[i].place = p}

\* C31: every enqueued item is in the pending list, or counted by
\* getRunningCount(), or completed, or removed: the number of items enqueued
\* is getPendingCount() + getRunningCount() + the number completed + the
\* number removed.
C31_EveryItemInOnePlace ==
    nextId - 1 = Len(pending) + concurrent
                     + Cardinality(ItemsAt("done"))
                     + Cardinality(ItemsAt("removed"))

\* ---- C32
\* C32: the completion of an item, after a success or after a terminal
\* failure, takes one off getRunningCount(), and nothing else ever does; a
\* completed item does not complete again; getRunningCount() is never
\* negative; and once the caller has made its last start(), the items that
\* are pending when an item has failed for good are all taken from the list.
C32_CompletionFreesSlot ==
    /\ [](concurrent >= 0)
    /\ [][/\ \A i \in Items : Completed(i) => concurrent' = concurrent - 1
          /\ concurrent' < concurrent =>
                /\ concurrent' = concurrent - 1
                /\ Cardinality({i \in Items : Completed(i)}) = 1
          /\ \A i \in Items : item[i].place = "done" => item'[i].place = "done"
         ]_vars
    /\ \A i \in Items :
          (quiet /\ item[i].outcome = "error" /\ pending # <<>>)
              ~> (pending = <<>>)

\* ---- C33
\* How many times the terminal onCallbackError of item i's chain was called:
\* the calls of the hook that were not followed by a retry.
TerminalErrors(i) == item[i].nErr - item[i].attempt

\* C33: when the slot of an item is released (.finally), one terminal result
\* hook has been called for it: onCallbackSuccess once, or the terminal
\* onCallbackError once, not both and not neither; and at no time has more
\* than one been called for an item (the hooks being ones that return).
C33_OneTerminalHook ==
    /\ [](\A i \in Items :
            /\ item[i].nSucc \in {0, 1}
            /\ TerminalErrors(i) \in {0, 1}
            /\ item[i].nSucc + TerminalErrors(i) <= 1
            /\ item[i].nSucc = 1 <=> item[i].outcome = "success"
            /\ TerminalErrors(i) = 1 <=> item[i].outcome = "error")
    /\ [][\A i \in Items :
            Completed(i) => item[i].nSucc + TerminalErrors(i) = 1]_vars

\* One item succeeded and another failed for good; both are about to
\* release their slots.
C33_Witness ==
    \E i, j \in Items :
        /\ item[i].outcome = "success"
        /\ item[j].outcome = "error"
        /\ item[i].place = "running"
        /\ item[j].place = "running"

\* ---- C34
\* The step invokes the callback of item i (one attempt starts).
Attempted(i) == item'[i].calls = item[i].calls + 1

\* C34: an attempt of an item other than the first starts only in the step
\* in which the failure of the attempt before it is handled (nothing of the
\* item is awaited then, and it is the item's rejection the step handles);
\* an item has at most one attempt under way, awaited or with its outcome
\* waiting to be handled; attempt k is the k-th invocation; and between the
\* first attempt and .finally no step of the item's own chain changes
\* getRunningCount().
C34_RetriesSequential ==
    /\ [](\A i \in Items :
            /\ (IF item[i].waiting THEN 1 ELSE 0) + Cardinality(Reactions(i)) <= 1
            /\ item[i].place = "running" => item[i].calls = item[i].attempt + 1)
    /\ [][\A i \in Items :
            /\ Attempted(i) /\ item[i].calls > 0 =>
                  /\ ~item[i].waiting
                  /\ HeadIs("rejected") /\ Head(microQ).item = i
                  /\ item'[i].attempt = item[i].attempt + 1
                  /\ item'[i].waiting
            /\ item[i].place = "running" /\ item'[i].place = "running"
                  /\ microQ # <<>> /\ Head(microQ).item = i
                  /\ microQ' # microQ
                  => concurrent' = concurrent]_vars

\* An item is at its second attempt while another item is running too.
C34_Witness ==
    \E i, j \in Items :
        /\ i # j
        /\ item[i].place = "running" /\ item[i].attempt = 1 /\ item[i].waiting
        /\ item[j].place = "running"

\* ---- C35
\* A result hook threw for item i and the chain has not yet got over it:
\* .catch is queued although the callback succeeded, or although retries
\* were left.
HookThrewFor(i) ==
    /\ item[i].place = "running"
    /\ \E k \in Reactions(i) : microQ[k].step = "catch"
    /\ item[i].nSucc = 1 \/ item[i].attempt < item[i].retries

\* C35: when onCallbackSuccess or onCallbackError throws, the chain of the
\* item goes on: a running item whose callback is not awaited always has its
\* next reaction queued, so .finally is reached; and .finally does what it
\* does otherwise: getRunningCount() one less, the pending list as it was,
\* the state IDLE if it was BUSY with nothing left running or pending and
\* unchanged if not.
C35_HookThrowKeepsBookkeeping ==
    /\ [](\A i \in Items :
            item[i].place = "running" =>
                (IF item[i].waiting THEN 1 ELSE 0) + Cardinality(Reactions(i)) = 1)
    /\ [][\A i \in Items :
            Completed(i) =>
                /\ concurrent' = concurrent - 1
                /\ pending' = pending
                /\ running' = {p \in running : p[1] # item[i].index}
                /\ state' = IF state = BUSY /\ concurrent' = 0 /\ pending = <<>>
                             THEN IDLE
                             ELSE state]_vars
    /\ [][MicroStepThrows =>
            /\ concurrent' = concurrent
            /\ pending' = pending
            /\ state' = state]_vars
    /\ \A i \in Items : HookThrewFor(i) ~> (item[i].place = "done")

\* onCallbackSuccess threw for an item that ran with another one.
C35_Witness ==
    \E i, j \in Items :
        /\ i # j
        /\ HookThrewFor(i)
        /\ item[i].nSucc = 1
        /\ item[j].place = "running"

\* ---- C36
\* C36: enqueue, enqueueAll and start invoke no callback: when they return,
\* an item they took from the pending list has not been invoked, its first
\* reaction is queued; no step whatever that takes an item invokes it; and
\* while an item is taken and not yet invoked, nothing of it is awaited and
\* its one reaction waits in the microtask queue, where any call of the
\* caller can come before it.
C36_NeverInvokesSynchronously ==
    /\ [][(DoEnqueue \/ DoEnqueueAll \/ DoStart) =>
            \A i \in Items :
                item'[i].calls = item[i].calls /\ ~FirstInvoked(i)]_vars
    /\ [][\A i \in Items :
            Admitted(i) =>
                /\ item'[i].calls = 0
                /\ \E k \in 1..Len(microQ') :
                      microQ'[k] = [item |-> i, step |-> "launch"]]_vars
    /\ [](\A i \in Items :
            item[i].place = "admitted" =>
                /\ item[i].calls = 0
                /\ ~item[i].waiting
                /\ Cardinality(Reactions(i)) = 1
                /\ \A k \in Reactions(i) : microQ[k].step = "launch")

\* stop() or clear() came between the admission of an item and its first
\* invocation, and another item was removed meanwhile.
C36_Witness ==
    /\ state = STOPPED
    /\ \E i \in Items : item[i].place = "admitted"
    /\ \E j \in Items : item[j].place = "removed"

\* ---- C37
\* The call that led from the queue as it is to q changed nothing but the
\* pending list and the items it removed from it, and called no hook.
OnlyRemoved(q) ==
    /\ q.state = state
    /\ q.concurrent = concurrent
    /\ q.running = running
    /\ q.microQ = microQ
    /\ q.intervals = intervals
    /\ q.fired = <<>>
    /\ ~q.threw
    /\ \A i \in Items :
          IF i \in Range(pending) \ Range(q.pending)
          THEN q.item[i].place = "removed"
          ELSE q.item[i] = item[i]

\* C37: dequeue() returns the front item of the pending list and leaves the
\* rest, or returns nothing and changes nothing when the list is empty;
\* dequeueAll() returns the whole list in its order and leaves it empty;
\* neither changes the state, calls a hook or touches what is in flight.
C37_DequeueFrame ==
    /\ DequeueRet(Cur) = IF pending = <<>> THEN <<>> ELSE <<Head(pending)>>
    /\ Dequeue(Cur).pending = IF pending = <<>> THEN <<>> ELSE Tail(pending)
    /\ pending = <<>> => Dequeue(Cur) = Cur
    /\ OnlyRemoved(Dequeue(Cur))
    /\ DequeueAllRet(Cur) = pending
    /\ DequeueAll(Cur).pending = <<>>
    /\ OnlyRemoved(DequeueAll(Cur))

\* Something is pending while a callback is awaited and a timer scheduled.
C37_Witness ==
    /\ pending # <<>>
    /\ intervals > 0
    /\ \E i \in Items : item[i].place = "running" /\ item[i].waiting

\* ---- C38
\* C38: items in flight at the same time have different handles (the index
\* #processNext gave them), and the registry #running has one entry for each
\* item that is running: its size is getRunningCount().
C38_DistinctHandles ==
    /\ \A i, j \in InFlight : i # j => item[i].index # item[j].index
    /\ Cardinality(running) = concurrent
    /\ \A i \in ItemsAt("running") : <<item[i].index, i>> \in running

\* ---- C39
\* C39: a tick of an admission timer clears the timer exactly when, after
\* its #processNext, the state is not BUSY or nothing is pending; timers are
\* only added by a step that sets or finds the state BUSY with the start()
\* guard passed; and if from some time on the queue stays drained or
\* stopped, then from some time on no timer is scheduled.
C39_TimersTerminate ==
    /\ [](intervals >= 0)
    /\ [][Tick =>
            IF state' # BUSY \/ pending' = <<>>
            THEN intervals' = intervals - 1
            ELSE intervals' = intervals]_vars
    /\ [][intervals' < intervals => Tick]_vars
    /\ <>[](state # BUSY \/ pending = <<>>) => <>[](intervals = 0)

\* A queue that was started and then stopped has items pending and a
\* callback awaited, and its timer is gone.
C39_Witness ==
    /\ state = STOPPED
    /\ pending # <<>>
    /\ intervals = 0
    /\ \E i \in Items : item[i].place = "running" /\ item[i].waiting

====
